---- MODULE Spec2Model ----
(***************************************************************************)
(* A model of silt's configuration store (src/silt/config.py).             *)
(*                                                                         *)
(* Config is a dict with four population methods.  The store is modelled   *)
(* as a function from keys to values, a key as the sequence of its         *)
(* characters, and every method as an operator from the store before the   *)
(* call and the call's arguments to the store after it and the call's      *)
(* outcome (the value returned or the exception raised).  The methods the  *)
(* class inherits from dict and leaves as they are change the store too    *)
(* and are modelled beside the four.  The caller is modelled as well: it   *)
(* constructs the store, issues a call, may issue the same call again, and *)
(* then drops the outcome before the next call.                            *)
(***************************************************************************)
EXTENDS Integers, Sequences, FiniteSets, TLC

VARIABLES
    store,      \* the dict itself: its items, in insertion order
    pc,         \* the caller: "ready" for a call, or "returned" from one
    call,       \* the arguments of the last call (NoCall when ready)
    pre,        \* the store as it was when the last call began
    result,     \* what the last call returned or raised
    repeated    \* TRUE when the last call repeated the one before it

vars == <<store, pc, call, pre, result, repeated>>

----------------------------------------------------------------------------
(* Bounds of the model.                                                    *)

MaxVal == 2         \* values are 1..MaxVal
MaxLen == 2         \* entries of one positional source
MaxKw == 1          \* keyword bindings of one call
MaxPos == 2         \* positional sources of one call
MaxDefaults == 1    \* entries of the defaults mapping
MaxAttrs == 2       \* attributes of a source object

Vals == 1..MaxVal

SeqsUpTo(S, n) == UNION {[1..m -> S] : m \in 0..n}

----------------------------------------------------------------------------
(* Characters and keys.                                                    *)

\* The characters keys are made of, in code point order.
Alphabet ==
    << "A", "B", "C", "D", "E", "F", "G", "H", "I", "J", "K", "L", "M",
       "N", "O", "P", "Q", "R", "S", "T", "U", "V", "W", "X", "Y", "Z",
       "_",
       "a", "b", "c", "d", "e", "f", "g", "h", "i", "j", "k", "l", "m",
       "n", "o", "p", "q", "r", "s", "t", "u", "v", "w", "x", "y", "z" >>

UpperChars == {Alphabet[i] : i \in 1..26}
LowerChars == {Alphabet[i] : i \in 28..53}

Ord(c) == CHOOSE i \in 1..Len(Alphabet) : Alphabet[i] = c

\* str.isupper with the cased-character test forgotten.
isupper_no_lower(key) == \A i \in 1..Len(key) : key[i] \notin LowerChars

\* str.isupper: at least one cased character, and no cased character that
\* is not upper case.
isupper(key) ==
    /\ \E i \in 1..Len(key) : key[i] \in UpperChars
    /\ \A i \in 1..Len(key) : key[i] \notin LowerChars

\* The order of str: lexicographic by code point (dir() sorts by it).
KeyLess(a, b) ==
    \E i \in 1..Len(b) :
        /\ \A j \in 1..(i - 1) : j <= Len(a) /\ a[j] = b[j]
        /\ i > Len(a) \/ Ord(a[i]) < Ord(b[i])

KeyA == << "A" >>
KeyB == << "B", "_" >>
KeyMixed == << "A", "b" >>
KeyUncased == << "_" >>

KeyPool == {KeyA, KeyB, KeyMixed, KeyUncased}

----------------------------------------------------------------------------
(* Entries of a source.  An entry is what iterating a source yields:       *)
(*   "pair"    a (key, value) pair whose key is a str;                     *)
(*   "intkey"  a pair whose key is not a str and has no isupper;           *)
(*   "badlen"  an iterable that is not of length two (unpacking it is a    *)
(*             ValueError);                                                *)
(*   "scalar"  something not iterable, an int or None (unpacking it is a   *)
(*             TypeError);                                                 *)
(*   "geterr"  (objects only) an attribute whose read raises exc.          *)
(* exc is the exception that processing the entry raises, "none" for a     *)
(* pair.                                                                   *)

Pair(k, v) == [tag |-> "pair", key |-> k, val |-> v, exc |-> "none"]
IntKey == [tag |-> "intkey", key |-> <<>>, val |-> 1, exc |-> "AttributeError"]
BadLen == [tag |-> "badlen", key |-> <<>>, val |-> 1, exc |-> "ValueError"]
Scalar == [tag |-> "scalar", key |-> <<>>, val |-> 1, exc |-> "TypeError"]
GetErr(k, x) == [tag |-> "geterr", key |-> k, val |-> 1, exc |-> x]

\* What the read of an attribute may raise: anything the getter raises.
GetErrKinds == {"AttributeError", "ValueError"}

UniqueKeys(es) ==
    \A i, j \in 1..Len(es) :
        i < j => es[i].tag # es[j].tag \/ es[i].key # es[j].key

Sorted(es) == \A i \in 1..(Len(es) - 1) : KeyLess(es[i].key, es[i + 1].key)

MapEntries ==
    {Pair(KeyA, v) : v \in Vals}
        \cup {Pair(KeyB, 1), Pair(KeyMixed, 1), Pair(KeyUncased, 1), IntKey}
SeqEntries == MapEntries \cup {BadLen, Scalar}
KwEntries == {Pair(KeyA, v) : v \in Vals} \cup {Pair(KeyMixed, 1), Pair(KeyUncased, 1)}
DefaultEntries == {Pair(KeyA, v) : v \in Vals} \cup {Pair(KeyB, 1), Pair(KeyMixed, MaxVal)}
AttrEntries ==
    {Pair(KeyA, v) : v \in Vals}
        \cup {Pair(KeyB, 1), Pair(KeyMixed, 1), Pair(KeyUncased, 1)}
        \cup {GetErr(KeyB, x) : x \in GetErrKinds}
        \cup {GetErr(KeyMixed, "AttributeError")}

\* A positional source: a mapping (it has items), a sequence to iterate
\* directly, or an object that cannot be iterated at all.
Mapping(es) == [kind |-> "mapping", entries |-> es]
Pairs(es) == [kind |-> "pairs", entries |-> es]
NonIter == [kind |-> "noniter", entries |-> <<>>]

Sources ==
    {Mapping(es) : es \in {s \in SeqsUpTo(MapEntries, MaxLen) : UniqueKeys(s)}}
        \cup {Pairs(es) : es \in SeqsUpTo(SeqEntries, MaxLen)}
        \cup {NonIter}

\* The sources of a call with more than one positional argument.
ExtraSources ==
    {Mapping(<< Pair(KeyA, MaxVal) >>), Pairs(<< Pair(KeyB, 1) >>),
     Pairs(<< Scalar >>), NonIter}

PosArgs ==
    {<<>>} \cup {<< s >> : s \in Sources}
        \cup UNION {[1..n -> ExtraSources] : n \in 2..MaxPos}

KwArgs == {s \in SeqsUpTo(KwEntries, MaxKw) : UniqueKeys(s)}

\* The defaults of Config(defaults): a mapping.
DefaultsPool ==
    {Mapping(s) : s \in {s \in SeqsUpTo(DefaultEntries, MaxDefaults) : UniqueKeys(s)}}

\* The arguments of the methods inherited from dict.
DictItems == {[key |-> e.key, val |-> e.val] : e \in DefaultEntries}

UpdateSources ==
    {Mapping(<< e >>) : e \in DefaultEntries}
        \cup {Pairs(<< e, b >>) : e \in DefaultEntries, b \in {BadLen, Scalar}}
        \cup {Pairs(<< Pair(KeyB, 1), Pair(KeyA, 1) >>), NonIter}

UpdatePos ==
    {<<>>} \cup {<< s >> : s \in UpdateSources}
        \cup {<< Mapping(<< Pair(KeyMixed, MaxVal) >>), Mapping(<< Pair(KeyA, 1) >>) >>}

UpdateKw == {<<>>, << Pair(KeyMixed, MaxVal) >>, << Pair(KeyA, 1) >>}

\* dir(obj) with what reading each attribute gives: sorted, no name twice.
Objects == {s \in SeqsUpTo(AttrEntries, MaxAttrs) : Sorted(s)}

----------------------------------------------------------------------------
(* Files and loaders.                                                      *)

ENOENT == 2
EISDIR == 21
OtherErrnos == {13}     \* EACCES

OsMessage == << "strerror" >>
LoadPrefix == << "Unable to load configuration file: " >>

\* What loader(f) does on the open file: returns an object or raises.
Loaded(src) == [exc |-> "none", errno |-> 0, src |-> src]
LoadIOError(e) == [exc |-> "IOError", errno |-> e, src |-> NonIter]
LoadError == [exc |-> "LoaderError", errno |-> 0, src |-> NonIter]

LoadOutcomes ==
    {Loaded(s) : s \in Sources}
        \cup {LoadIOError(e) : e \in {ENOENT, EISDIR} \cup OtherErrnos}
        \cup {LoadError}

\* A file: the errno open() fails with (0 when it opens) and, when it
\* opens, what the loader does with it.
Files ==
    {[open |-> 0, load |-> l] : l \in LoadOutcomes}
        \cup {[open |-> e, load |-> LoadError] : e \in {ENOENT, EISDIR} \cup OtherErrnos}

NoFile == [open |-> 0, load |-> LoadError]

----------------------------------------------------------------------------
(* Outcomes of a call.                                                     *)

\* key and val carry a returned value or item (dict.pop, dict.setdefault,
\* dict.popitem); they are <<>> and 0 otherwise.
Returned(v) ==
    [ret |-> v, exc |-> "none", errno |-> 0, strerror |-> <<>>, key |-> <<>>, val |-> 0]
ReturnedValue(v) == [Returned("value") EXCEPT !.val = v]
ReturnedItem(k, v) == [Returned("item") EXCEPT !.key = k, !.val = v]
Raised(e) ==
    [ret |-> "raised", exc |-> e, errno |-> 0, strerror |-> <<>>, key |-> <<>>, val |-> 0]
RaisedIO(e, msg) == [Raised("IOError") EXCEPT !.errno = e, !.strerror = msg]
NoResult == Returned("None")

Outcome(s, r) == [store |-> s, result |-> r]

----------------------------------------------------------------------------
(* The dict operations the methods use.                                    *)

\* A dict is the sequence of its items in insertion order, no key twice.
Item(k, v) == [key |-> k, val |-> v]

Keys(s) == {s[i].key : i \in 1..Len(s)}

IndexOf(s, k) == CHOOSE i \in 1..Len(s) : s[i].key = k

\* self[key]
GetItem(s, k) == s[IndexOf(s, k)].val

\* The dict as a mapping: two dicts are equal when these are, whatever the
\* order of their items.
Dict(s) == [k \in Keys(s) |-> GetItem(s, k)]

\* self[key] = value: a key the dict holds keeps its place, a new key goes
\* last.
SetItem(s, k, v) ==
    IF k \in Keys(s)
        THEN [i \in 1..Len(s) |-> IF s[i].key = k THEN Item(k, v) ELSE s[i]]
        ELSE Append(s, Item(k, v))

\* del self[key], for a key the dict holds
Remove(s, k) == SubSeq(s, 1, IndexOf(s, k) - 1) \o SubSeq(s, IndexOf(s, k) + 1, Len(s))

EmptyStore == <<>>

\* The loop of dict.update over the entries of one argument: every pair is
\* written, whatever its key; it stops at the first entry that is no pair.
\* (An entry with a key that is no str is not among the inputs: the store
\* of the model holds str keys.)
RECURSIVE DictUpdate(_, _)
DictUpdate(s, es) ==
    IF es = <<>> THEN [store |-> s, exc |-> "none"]
    ELSE LET e == Head(es) IN
         IF e.tag = "badlen" THEN [store |-> s, exc |-> "ValueError"]
         ELSE IF e.tag = "scalar" THEN [store |-> s, exc |-> "TypeError"]
         ELSE DictUpdate(SetItem(s, e.key, e.val), Tail(es))

\* dict.update(*pos, **kw), which dict.__init__ and dict.__ior__ share: at
\* most one positional argument, written first, then the keywords.
RECURSIVE DictUpdateArgs(_, _, _)
DictUpdateArgs(s, pos, kw) ==
    IF Len(pos) > 1 THEN [store |-> s, exc |-> "TypeError"]
    ELSE IF Len(pos) = 1 THEN
        IF pos[1].kind = "noniter" THEN [store |-> s, exc |-> "TypeError"]
        ELSE LET r == DictUpdate(s, pos[1].entries) IN
             IF r.exc # "none" THEN r ELSE DictUpdateArgs(r.store, <<>>, kw)
    ELSE DictUpdate(s, kw)

\* Config.__init__(self, defaults): dict.__init__(self, defaults), on the
\* new object and on one that holds items already.
init(s, defaults) ==
    LET r == DictUpdateArgs(s, << defaults >>, <<>>) IN
    IF r.exc = "none" THEN Outcome(r.store, Returned("None"))
    ELSE Outcome(r.store, Raised(r.exc))

\* Config(defaults)
Config(defaults) == init(EmptyStore, defaults).store

----------------------------------------------------------------------------
(* The methods Config inherits from dict unchanged.                        *)

\* self[key] = value, from outside
dict_setitem(s, k, v) == Outcome(SetItem(s, k, v), Returned("None"))

\* setdefault(key, value)
dict_setdefault(s, k, v) ==
    IF k \in Keys(s) THEN Outcome(s, ReturnedValue(GetItem(s, k)))
    ELSE Outcome(SetItem(s, k, v), ReturnedValue(v))

\* update(*pos, **kw)
dict_update(s, pos, kw) ==
    LET r == DictUpdateArgs(s, pos, kw) IN
    IF r.exc = "none" THEN Outcome(r.store, Returned("None"))
    ELSE Outcome(r.store, Raised(r.exc))

\* self |= other
dict_ior(s, other) ==
    LET r == DictUpdateArgs(s, << other >>, <<>>) IN
    IF r.exc = "none" THEN Outcome(r.store, Returned("self"))
    ELSE Outcome(r.store, Raised(r.exc))

\* pop(key), and pop(key, default) when withDefault
dict_pop(s, k, withDefault, default) ==
    IF k \in Keys(s) THEN Outcome(Remove(s, k), ReturnedValue(GetItem(s, k)))
    ELSE IF withDefault THEN Outcome(s, ReturnedValue(default))
    ELSE Outcome(s, Raised("KeyError"))

\* del self[key]
dict_delitem(s, k) ==
    IF k \in Keys(s) THEN Outcome(Remove(s, k), Returned("None"))
    ELSE Outcome(s, Raised("KeyError"))

\* popitem(): the item inserted last
dict_popitem(s) ==
    IF s = <<>> THEN Outcome(s, Raised("KeyError"))
    ELSE Outcome(SubSeq(s, 1, Len(s) - 1), ReturnedItem(s[Len(s)].key, s[Len(s)].val))

\* clear()
dict_clear(s) == Outcome(<<>>, Returned("None"))

----------------------------------------------------------------------------
(* update_from_mapping                                                     *)

\* The inner loop with setdefault in place of the assignment.
RECURSIVE MergeEntries_setdefault(_, _)
MergeEntries_setdefault(s, es) ==
    IF es = <<>> THEN [store |-> s, exc |-> "none"]
    ELSE LET e == Head(es) IN
         IF e.tag = "badlen" THEN [store |-> s, exc |-> "ValueError"]
         ELSE IF e.tag = "scalar" THEN [store |-> s, exc |-> "TypeError"]
         ELSE IF e.tag = "intkey" THEN [store |-> s, exc |-> "AttributeError"]
         ELSE MergeEntries_setdefault(
                  IF isupper(e.key) /\ e.key \notin Keys(s)
                      THEN SetItem(s, e.key, e.val) ELSE s,
                  Tail(es))

\* The inner loop adding to the value already held.
RECURSIVE MergeEntries_accumulate(_, _)
MergeEntries_accumulate(s, es) ==
    IF es = <<>> THEN [store |-> s, exc |-> "none"]
    ELSE LET e == Head(es) IN
         IF e.tag = "badlen" THEN [store |-> s, exc |-> "ValueError"]
         ELSE IF e.tag = "scalar" THEN [store |-> s, exc |-> "TypeError"]
         ELSE IF e.tag = "intkey" THEN [store |-> s, exc |-> "AttributeError"]
         ELSE MergeEntries_accumulate(
                  IF isupper(e.key)
                      THEN SetItem(s, e.key,
                                   IF e.key \in Keys(s)
                                       THEN GetItem(s, e.key) + e.val ELSE e.val)
                      ELSE s,
                  Tail(es))

\* The inner loop stepping over the entries it cannot process.
RECURSIVE MergeEntries_skip_bad(_, _)
MergeEntries_skip_bad(s, es) ==
    IF es = <<>> THEN [store |-> s, exc |-> "none"]
    ELSE LET e == Head(es)
             r == MergeEntries_skip_bad(
                      IF e.tag = "pair" /\ isupper(e.key)
                          THEN SetItem(s, e.key, e.val) ELSE s,
                      Tail(es))
         IN  IF e.tag = "badlen" THEN [store |-> r.store, exc |-> "ValueError"]
             ELSE IF e.tag = "scalar" THEN [store |-> r.store, exc |-> "TypeError"]
             ELSE IF e.tag = "intkey" THEN [store |-> r.store, exc |-> "AttributeError"]
             ELSE r

\* for key, value in mapping: if key.isupper(): self[key] = value
\* The loop stops at the first entry that raises: one that does not unpack
\* into (key, value), or one whose key has no isupper.
RECURSIVE MergeEntries(_, _)
MergeEntries(s, es) ==
    IF es = <<>> THEN [store |-> s, exc |-> "none"]
    ELSE LET e == Head(es) IN
         IF e.tag = "badlen" THEN [store |-> s, exc |-> "ValueError"]
         ELSE IF e.tag = "scalar" THEN [store |-> s, exc |-> "TypeError"]
         ELSE IF e.tag = "intkey" THEN [store |-> s, exc |-> "AttributeError"]
         ELSE MergeEntries(
                  IF isupper(e.key) THEN SetItem(s, e.key, e.val) ELSE s,
                  Tail(es))

\* for mapping in mappings: ...   Iterating what cannot be iterated raises.
RECURSIVE MergeBatches(_, _)
MergeBatches(s, batches) ==
    IF batches = <<>> THEN [store |-> s, exc |-> "none"]
    ELSE LET b == Head(batches) IN
         IF b.kind = "noniter" THEN [store |-> s, exc |-> "TypeError"]
         ELSE LET r == MergeEntries(s, b.entries) IN
              IF r.exc # "none" THEN r ELSE MergeBatches(r.store, Tail(batches))

\* mapping[0].items() when mapping[0] has items, mapping[0] itself otherwise.
ItemsOf(src) == IF src.kind = "mapping" THEN Pairs(src.entries) ELSE src

\* update_from_mapping counting its arguments after the merge.
update_from_mapping_late_check(s, pos, kw) ==
    LET mappings == (IF Len(pos) >= 1 THEN << ItemsOf(pos[1]) >> ELSE <<>>)
                        \o << Pairs(kw) >>
        r == MergeBatches(s, mappings)
    IN  IF r.exc # "none" THEN Outcome(r.store, Raised(r.exc))
        ELSE IF Len(pos) > 1 THEN Outcome(r.store, Raised("TypeError"))
        ELSE Outcome(r.store, Returned("True"))

\* update_from_mapping with the keyword batch put first.
update_from_mapping_kw_first(s, pos, kw) ==
    IF Len(pos) > 1 THEN Outcome(s, Raised("TypeError"))
    ELSE LET mappings == << Pairs(kw) >>
                             \o (IF Len(pos) = 1 THEN << ItemsOf(pos[1]) >> ELSE <<>>)
             r == MergeBatches(s, mappings)
         IN  IF r.exc = "none" THEN Outcome(r.store, Returned("True"))
             ELSE Outcome(r.store, Raised(r.exc))

\* update_from_mapping(*mapping, **kwargs)
update_from_mapping(s, pos, kw) ==
    IF Len(pos) > 1 THEN Outcome(s, Raised("TypeError"))
    ELSE LET mappings == (IF Len(pos) = 1 THEN << ItemsOf(pos[1]) >> ELSE <<>>)
                             \o << Pairs(kw) >>
             r == MergeBatches(s, mappings)
         IN  IF r.exc = "none" THEN Outcome(r.store, Returned("True"))
             ELSE Outcome(r.store, Raised(r.exc))

----------------------------------------------------------------------------
(* from_file and from_yaml                                                 *)

\* The handler silencing every IOError when silent.
except_IOError_any_errno(s, e, msg, silent) ==
    IF silent THEN Outcome(s, Returned("False"))
    ELSE Outcome(s, RaisedIO(e, LoadPrefix \o msg))

\* The handler silencing not-found and is-a-directory whatever silent is.
except_IOError_always_silent(s, e, msg, silent) ==
    IF e \in {ENOENT, EISDIR} THEN Outcome(s, Returned("False"))
    ELSE Outcome(s, RaisedIO(e, LoadPrefix \o msg))

\* except IOError as e: return False when silent and the errno is ENOENT or
\* EISDIR; otherwise prefix e.strerror and raise e again.
except_IOError(s, e, msg, silent) ==
    IF silent /\ e \in {ENOENT, EISDIR} THEN Outcome(s, Returned("False"))
    ELSE Outcome(s, RaisedIO(e, LoadPrefix \o msg))

\* from_file with the loader called outside the try block.
from_file_loader_outside_try(s, file, silent) ==
    IF file.open # 0 THEN except_IOError(s, file.open, OsMessage, silent)
    ELSE IF file.load.exc = "IOError"
        THEN Outcome(s, RaisedIO(file.load.errno, OsMessage))
    ELSE IF file.load.exc # "none" THEN Outcome(s, Raised(file.load.exc))
    ELSE update_from_mapping(s, << file.load.src >>, <<>>)

\* from_file(filepath, loader, silent): open(filepath) and loader(f) are
\* both inside the try block, so an IOError of either reaches the handler;
\* any other exception of the loader passes through.
from_file(s, file, silent) ==
    IF file.open # 0 THEN except_IOError(s, file.open, OsMessage, silent)
    ELSE IF file.load.exc = "IOError"
        THEN except_IOError(s, file.load.errno, OsMessage, silent)
    ELSE IF file.load.exc # "none" THEN Outcome(s, Raised(file.load.exc))
    ELSE update_from_mapping(s, << file.load.src >>, <<>>)

\* from_yaml returning what from_file returns.
from_yaml_returns_result(s, file, silentArg) ==
    IF silentArg # "absent" THEN Outcome(s, Raised("TypeError"))
    ELSE from_file(s, file, FALSE)

\* from_yaml(filepath): it takes no silent argument (passing one is a
\* TypeError of the call), calls from_file without silent and drops what
\* from_file returns.
from_yaml(s, file, silentArg) ==
    IF silentArg # "absent" THEN Outcome(s, Raised("TypeError"))
    ELSE LET r == from_file(s, file, FALSE) IN
         IF r.result.ret = "raised" THEN r
         ELSE Outcome(r.store, Returned("None"))

----------------------------------------------------------------------------
(* from_object                                                             *)

\* for key in dir(obj): if key.isupper(): self[key] = getattr(obj, key)
\* An attribute is read only when its name is upper case, and what its read
\* raises leaves from_object as it is.
RECURSIVE from_object(_, _)
from_object(s, attrs) ==
    IF attrs = <<>> THEN Outcome(s, Returned("None"))
    ELSE LET a == Head(attrs) IN
         IF ~isupper(a.key) THEN from_object(s, Tail(attrs))
         ELSE IF a.tag = "geterr" THEN Outcome(s, Raised(a.exc))
         ELSE from_object(SetItem(s, a.key, a.val), Tail(attrs))

----------------------------------------------------------------------------
(* The calls and the state machine.                                        *)

\* item and withDefault are the key, the value and the optional default of
\* the calls to the methods inherited from dict.
NoCall ==
    [op |-> "none", pos |-> <<>>, kw |-> <<>>, file |-> NoFile,
     silent |-> "absent", attrs |-> <<>>,
     item |-> [key |-> <<>>, val |-> 0], withDefault |-> FALSE]

LoadOps == {"from_object", "update_from_mapping", "from_file", "from_yaml"}

ObjectCalls == {[NoCall EXCEPT !.op = "from_object", !.attrs = o] : o \in Objects}

MappingCalls ==
    {[NoCall EXCEPT !.op = "update_from_mapping", !.pos = p, !.kw = k] :
        p \in PosArgs, k \in KwArgs}

FileCalls ==
    {[NoCall EXCEPT !.op = "from_file", !.file = f, !.silent = b] :
        f \in Files, b \in {"absent", "true", "false"}}

YamlCalls ==
    {[NoCall EXCEPT !.op = "from_yaml", !.file = f, !.silent = b] :
        f \in Files, b \in {"absent", "true", "false"}}

InitCalls == {[NoCall EXCEPT !.op = "init", !.pos = << d >>] : d \in DefaultsPool}

SetItemCalls == {[NoCall EXCEPT !.op = "setitem", !.item = i] : i \in DictItems}

SetDefaultCalls == {[NoCall EXCEPT !.op = "setdefault", !.item = i] : i \in DictItems}

UpdateCalls ==
    {[NoCall EXCEPT !.op = "update", !.pos = p, !.kw = k] : p \in UpdatePos, k \in UpdateKw}

IOrCalls == {[NoCall EXCEPT !.op = "ior", !.pos = << s >>] : s \in UpdateSources}

PopCalls ==
    {[NoCall EXCEPT !.op = "pop", !.item = [key |-> k, val |-> MaxVal], !.withDefault = b] :
        k \in KeyPool, b \in BOOLEAN}

DelItemCalls ==
    {[NoCall EXCEPT !.op = "delitem", !.item = [key |-> k, val |-> 0]] : k \in KeyPool}

PopItemCalls == {[NoCall EXCEPT !.op = "popitem"]}

ClearCalls == {[NoCall EXCEPT !.op = "clear"]}

\* The calls to op the caller may issue now: any of S when it is ready, the
\* call it has just made (one of S, when it was a call to op) when it has
\* returned from one.
Offered(op, S) ==
    IF pc = "ready" THEN S
    ELSE IF call.op = op THEN {call} ELSE {}

Record(c, out) ==
    /\ store' = out.store
    /\ result' = out.result
    /\ call' = c
    /\ pre' = store
    /\ pc' = "returned"
    /\ repeated' = (pc = "returned")

Init ==
    /\ \E d \in DefaultsPool : store = Config(d)
    /\ pc = "ready"
    /\ call = NoCall
    /\ pre = store
    /\ result = NoResult
    /\ repeated = FALSE

FromObject ==
    \E c \in Offered("from_object", ObjectCalls) : Record(c, from_object(store, c.attrs))

UpdateFromMapping ==
    \E c \in Offered("update_from_mapping", MappingCalls) : Record(c, update_from_mapping(store, c.pos, c.kw))

FromFile ==
    \E c \in Offered("from_file", FileCalls) : Record(c, from_file(store, c.file, c.silent = "true"))

FromYaml ==
    \E c \in Offered("from_yaml", YamlCalls) : Record(c, from_yaml(store, c.file, c.silent))

\* The caller drops the outcome of the last call and is ready for another.
Discard ==
    /\ pc = "returned"
    /\ pc' = "ready"
    /\ call' = NoCall
    /\ pre' = store
    /\ result' = NoResult
    /\ repeated' = FALSE
    /\ UNCHANGED store

\* Config.__init__ called again on the object
ReInit ==
    \E c \in Offered("init", InitCalls) : Record(c, init(store, c.pos[1]))

DictSetItem ==
    \E c \in Offered("setitem", SetItemCalls) :
        Record(c, dict_setitem(store, c.item.key, c.item.val))

DictSetDefault ==
    \E c \in Offered("setdefault", SetDefaultCalls) :
        Record(c, dict_setdefault(store, c.item.key, c.item.val))

DictUpdateCall ==
    \E c \in Offered("update", UpdateCalls) : Record(c, dict_update(store, c.pos, c.kw))

DictIOr ==
    \E c \in Offered("ior", IOrCalls) : Record(c, dict_ior(store, c.pos[1]))

DictPop ==
    \E c \in Offered("pop", PopCalls) :
        Record(c, dict_pop(store, c.item.key, c.withDefault, c.item.val))

DictDelItem ==
    \E c \in Offered("delitem", DelItemCalls) : Record(c, dict_delitem(store, c.item.key))

DictPopItem ==
    \E c \in Offered("popitem", PopItemCalls) : Record(c, dict_popitem(store))

DictClear ==
    \E c \in Offered("clear", ClearCalls) : Record(c, dict_clear(store))

Next ==
    \/ FromObject \/ UpdateFromMapping \/ FromFile \/ FromYaml
    \/ ReInit \/ DictSetItem \/ DictSetDefault \/ DictUpdateCall \/ DictIOr
    \/ DictPop \/ DictDelItem \/ DictPopItem \/ DictClear
    \/ Discard

Spec == Init /\ [][Next]_vars

----------------------------------------------------------------------------
(* Vocabulary of the properties.                                           *)

\* The uppercase predicate as the specification words it: the key equals
\* its own upper-case form and has at least one alphabetic character.
ToUpper(c) == IF c \in LowerChars THEN Alphabet[Ord(c) - 27] ELSE c

UppercaseKey(k) ==
    /\ \A i \in 1..Len(k) : ToUpper(k[i]) = k[i]
    /\ \E i \in 1..Len(k) : k[i] \in UpperChars \cup LowerChars

\* The entries the last call iterates, positional batch first.
CallEntries ==
    CASE call.op = "update_from_mapping" ->
            (IF Len(call.pos) = 1 THEN call.pos[1].entries ELSE <<>>) \o call.kw
      [] call.op \in {"from_file", "from_yaml"} -> call.file.load.src.entries
      [] call.op = "from_object" -> call.attrs
      [] OTHER -> <<>>

\* The last place at which es binds key k to a value, 0 when it does not.
LastIndex(es, k) ==
    LET I == {i \in 1..Len(es) : es[i].tag = "pair" /\ es[i].key = k}
    IN  IF I = {} THEN 0 ELSE CHOOSE i \in I : \A j \in I : j <= i

\* The entries of es before the first one a merge cannot process.
GoodPrefix(es) ==
    LET B == {i \in 1..Len(es) : es[i].tag # "pair"}
    IN  IF B = {} THEN es
        ELSE SubSeq(es, 1, (CHOOSE i \in B : \A j \in B : i <= j) - 1)

\* Key k is in store s exactly as it is in store p.
SameAt(s, p, k) ==
    /\ k \in DOMAIN s <=> k \in DOMAIN p
    /\ k \in DOMAIN p => s[k] = p[k]

\* Store s is store p with the uppercase bindings of es written over it.
IsMerge(s, p, es) ==
    /\ DOMAIN s \subseteq KeyPool
    /\ \A k \in KeyPool :
        IF UppercaseKey(k) /\ LastIndex(es, k) # 0
            THEN k \in DOMAIN s /\ s[k] = es[LastIndex(es, k)].val
            ELSE SameAt(s, p, k)

\* The last call ran its load to the end.
Completed ==
    /\ pc = "returned"
    /\ \/ call.op \in {"update_from_mapping", "from_file"} /\ result = Returned("True")
       \/ call.op \in {"from_object", "from_yaml"} /\ result = Returned("None")

BenignErrnos == {ENOENT, EISDIR}

\* The store now and the store before the last call, as mappings.
Now == Dict(store)
Before == Dict(pre)

----------------------------------------------------------------------------
(* C1 *)

\* C1 as claimed: in every reachable state, the state right after
\* construction included, every key of the store satisfies the uppercase
\* predicate.
C1_AllKeysUppercase == \A k \in DOMAIN Now : UppercaseKey(k)

\* C1 as amended: no call of a load operation adds a key that fails the
\* uppercase predicate; after any sequence of load calls a key of the
\* store that fails it was in the store before them: it came with the
\* defaults mapping at construction, which is copied unfiltered.
C1_LoadsAddOnlyUppercase ==
    [][(pc' = "returned" /\ call'.op \in LoadOps)
            => \A k \in Keys(store') : UppercaseKey(k) \/ k \in Keys(store)]_vars

\* A load completed on a source binding a key that fails the predicate,
\* wrote something, and the key is not in the store.
C1_Witness ==
    /\ Completed
    /\ Now # Before
    /\ \E k \in KeyPool :
        /\ ~UppercaseKey(k)
        /\ LastIndex(CallEntries, k) # 0
        /\ k \notin DOMAIN Now

----------------------------------------------------------------------------
(* C2 *)

\* C2: update_from_mapping with more than one positional source raises the
\* usage error (TypeError) and leaves the store as it was before the call,
\* whatever the sources and the keyword bindings hold.
C2_TooManySourcesRaises ==
    (pc = "returned" /\ call.op = "update_from_mapping" /\ Len(call.pos) > 1)
        => result = Raised("TypeError") /\ Now = Before

\* Two sources, the first binding A to a value the store does not hold for
\* it, and a keyword binding besides.
C2_Witness ==
    /\ pc = "returned"
    /\ call.op = "update_from_mapping"
    /\ Len(call.pos) > 1
    /\ call.pos[1] = Mapping(<< Pair(KeyA, MaxVal) >>)
    /\ call.kw # <<>>
    /\ ~(KeyA \in DOMAIN Before /\ Before[KeyA] = MaxVal)
    /\ result.ret = "raised"

----------------------------------------------------------------------------
(* C3 *)

\* C3: when open() fails with ENOENT or EISDIR, from_file with silent true
\* returns False and raises nothing; with silent false it raises the error
\* with its errno kept and its message prefixed as a configuration-load
\* failure; the store is unchanged either way.
C3_BenignOpenFailure ==
    (pc = "returned" /\ call.op = "from_file" /\ call.file.open \in BenignErrnos)
        => /\ Now = Before
           /\ result = IF call.silent = "true"
                           THEN Returned("False")
                           ELSE RaisedIO(call.file.open, LoadPrefix \o OsMessage)

\* A silent from_file on a directory, on a store that holds something,
\* returned False.
C3_Witness ==
    /\ pc = "returned"
    /\ call.op = "from_file"
    /\ call.file.open = EISDIR
    /\ call.silent = "true"
    /\ result.ret = "False"
    /\ pre # EmptyStore

----------------------------------------------------------------------------
(* C4 *)

\* C4: an error of open() other than ENOENT and EISDIR is raised again by
\* from_file whatever silent is, with the configuration-load prefix and
\* the errno it came with; it never becomes a False return.
C4_OtherOpenFailureRaises ==
    (pc = "returned" /\ call.op = "from_file"
            /\ call.file.open # 0 /\ call.file.open \notin BenignErrnos)
        => result = RaisedIO(call.file.open, LoadPrefix \o OsMessage)

\* A silent from_file on a file it may not read has raised.
C4_Witness ==
    /\ pc = "returned"
    /\ call.op = "from_file"
    /\ call.file.open \in OtherErrnos
    /\ call.silent = "true"
    /\ result.ret = "raised"
    /\ result.errno = call.file.open

----------------------------------------------------------------------------
(* C5 *)

\* C5 as claimed: from_yaml with a path and a silent value ends as
\* from_file with the YAML loader and that silent value ends: the same
\* return value, the same error, the same store.
C5_YamlIsFromFile ==
    (pc = "returned" /\ call.op = "from_yaml")
        => Outcome(store, result) = from_file(pre, call.file, call.silent = "true")

\* C5 as amended: from_yaml takes the path alone (a silent argument is a
\* TypeError of the call and the store is unchanged); called with the path
\* it raises what from_file with silent false raises and leaves the store
\* from_file leaves, and it returns None where from_file returns True; it
\* never returns False.
C5_YamlIsLoudFromFileWithoutResult ==
    (pc = "returned" /\ call.op = "from_yaml")
        => IF call.silent # "absent"
               THEN result = Raised("TypeError") /\ Now = Before
               ELSE LET r == from_file(pre, call.file, FALSE) IN
                    /\ store = r.store
                    /\ result.ret # "False"
                    /\ IF r.result.ret = "raised"
                           THEN result = r.result
                           ELSE r.result = Returned("True") /\ result = Returned("None")

\* from_yaml loaded a readable file into the store and returned None.
C5_Witness ==
    /\ pc = "returned"
    /\ call.op = "from_yaml"
    /\ call.silent = "absent"
    /\ call.file.open = 0
    /\ call.file.load.exc = "none"
    /\ result = Returned("None")
    /\ Now # Before

----------------------------------------------------------------------------
(* C6 *)

\* C6 as claimed: whatever the loader raises leaves from_file as it was
\* raised, for both values of silent: never a False return, never another
\* message, an IOError with ENOENT or EISDIR included.
C6_LoaderErrorsUntouched ==
    (pc = "returned" /\ call.op = "from_file"
            /\ call.file.open = 0 /\ call.file.load.exc # "none")
        => result = IF call.file.load.exc = "IOError"
                        THEN RaisedIO(call.file.load.errno, OsMessage)
                        ELSE Raised(call.file.load.exc)

\* C6 as amended: an error of the loader that is not an IOError leaves
\* from_file as it was raised, for both values of silent; an IOError of
\* the loader is handled as one of open() is: with silent true and errno
\* ENOENT or EISDIR from_file returns False, otherwise the error is raised
\* again with its errno and its message prefixed.  The store is unchanged.
C6_LoaderErrorsButIOErrorUntouched ==
    (pc = "returned" /\ call.op = "from_file"
            /\ call.file.open = 0 /\ call.file.load.exc # "none")
        => /\ Now = Before
           /\ result =
                IF call.file.load.exc # "IOError" THEN Raised(call.file.load.exc)
                ELSE IF call.silent = "true" /\ call.file.load.errno \in BenignErrnos
                    THEN Returned("False")
                ELSE RaisedIO(call.file.load.errno, LoadPrefix \o OsMessage)

\* A silent from_file whose loader raised an IOError with ENOENT returned
\* False.
C6_Witness ==
    /\ pc = "returned"
    /\ call.op = "from_file"
    /\ call.file.open = 0
    /\ call.file.load = LoadIOError(ENOENT)
    /\ call.silent = "true"
    /\ result = Returned("False")

----------------------------------------------------------------------------
(* C7 *)

\* C7 as claimed: a from_file call that raises or returns False leaves the
\* store as it was before the call, also when the loaded content holds an
\* entry the merge cannot process.
C7_FailedLoadLeavesStore ==
    (pc = "returned" /\ call.op = "from_file" /\ result # Returned("True"))
        => Now = Before

\* C7 as amended: a from_file call that returns False, or raises from
\* open(), from the loader or from iterating what cannot be iterated,
\* leaves the store as it was; one that raises on an entry the merge
\* cannot process leaves the store with the uppercase pairs before that
\* entry written and none after it.
C7_FailedLoadKeepsPrefix ==
    (pc = "returned" /\ call.op = "from_file" /\ result # Returned("True"))
        => IsMerge(Now, Before, GoodPrefix(CallEntries))

\* from_file raised on an entry after the first and the store changed.
C7_Witness ==
    /\ pc = "returned"
    /\ call.op = "from_file"
    /\ result.ret = "raised"
    /\ result.exc \in {"AttributeError", "ValueError", "TypeError"}
    /\ Now # Before
    /\ Len(GoodPrefix(CallEntries)) < Len(CallEntries)

----------------------------------------------------------------------------
(* C8 *)

\* C8: update_from_mapping writes the positional batch first and the
\* keyword batch second, each in order, later writes over earlier ones: an
\* uppercase key the keywords bind holds the keyword value after the call,
\* and one only the positional source binds holds the value of its last
\* occurrence there.
C8_KeywordsOverPositional ==
    (pc = "returned" /\ call.op = "update_from_mapping" /\ result = Returned("True"))
        => LET p == IF Len(call.pos) = 1 THEN call.pos[1].entries ELSE <<>> IN
           \A k \in KeyPool :
               UppercaseKey(k) =>
                   /\ LastIndex(call.kw, k) # 0
                        => k \in DOMAIN Now
                            /\ Now[k] = call.kw[LastIndex(call.kw, k)].val
                   /\ (LastIndex(call.kw, k) = 0 /\ LastIndex(p, k) # 0)
                        => k \in DOMAIN Now /\ Now[k] = p[LastIndex(p, k)].val

\* A call whose pair sequence binds A twice, to two values, and whose
\* keywords bind A to a value that is not the sequence's last.
C8_Witness ==
    /\ pc = "returned"
    /\ call.op = "update_from_mapping"
    /\ result = Returned("True")
    /\ Len(call.pos) = 1
    /\ LET p == call.pos[1].entries IN
        /\ Len(p) = 2
        /\ p[1].key = KeyA /\ p[2].key = KeyA /\ p[1].val # p[2].val
        /\ LastIndex(call.kw, KeyA) # 0
        /\ call.kw[LastIndex(call.kw, KeyA)].val # p[2].val
        /\ Now[KeyA] = call.kw[LastIndex(call.kw, KeyA)].val

----------------------------------------------------------------------------
(* C9 *)

\* C9: a load through any of the four operations that runs to its end
\* leaves every uppercase key the source binds bound to the source's value
\* and every other key as it was before the call, a key that fails the
\* predicate included; update_from_mapping that does not raise returns
\* True.
C9_LoadWritesUppercaseOnly ==
    /\ Completed => IsMerge(Now, Before, CallEntries)
    /\ (pc = "returned" /\ call.op = "update_from_mapping" /\ result.ret # "raised")
        => result = Returned("True")

\* A load that ran to its end on a source binding an uppercase key to a
\* value the store did not hold and a key that fails the predicate, while
\* the store held another key.
C9_Witness ==
    /\ Completed
    /\ LastIndex(CallEntries, KeyA) # 0
    /\ LastIndex(CallEntries, KeyMixed) # 0
    /\ KeyA \in DOMAIN Before
    /\ Before[KeyA] # Now[KeyA]
    /\ KeyB \in DOMAIN Before

----------------------------------------------------------------------------
(* C10 *)

\* C10: a load run a second time with the same arguments and the same
\* source data leaves the store as the first run left it.
C10_LoadIdempotent ==
    (pc = "returned" /\ repeated /\ call.op \in LoadOps) => Now = Before

\* A load that binds A twice, to two values, has been run a second time.
C10_Witness ==
    /\ pc = "returned"
    /\ repeated
    /\ call.op \in LoadOps
    /\ Len(CallEntries) = 2
    /\ CallEntries[1].key = KeyA /\ CallEntries[2].key = KeyA
    /\ CallEntries[1].tag = "pair" /\ CallEntries[2].tag = "pair"
    /\ CallEntries[1].val # CallEntries[2].val
    /\ KeyA \in DOMAIN Now

====
